---- MODULE Spec2Model ----
(***************************************************************************)
(* ToyChain server (src/src/server.rs): the finalized ledger, the block    *)
(* being filled (next_block_to_mint), the two mutexes that guard them, the *)
(* minting thread (mint_blocks) and the request loop of init_server with   *)
(* process_request.  Each action is one statement, or one lock-protected   *)
(* group of statements, of the source.                                     *)
(*                                                                         *)
(* Strings that are hashes are modelled as sequences: "" is <<>> and a     *)
(* SHA-256 hex digest is a non-empty sequence built from the hashed bytes. *)
(* Option<String> is <<>> for None and <<id>> for Some(id).  Amounts (f64) *)
(* are modelled as small integers; balances may become negative.           *)
(***************************************************************************)
EXTENDS Integers, Sequences, FiniteSets, TLC

\* ---------------------------------------------------------------- bounds
\* Requests are received only while fewer than MaxTx transactions have been
\* accepted (ledger and pending block together).
MaxTx == 3

\* ---------------------------------------------------------------- inputs
Accounts == {"alice", "bob"}
Nodes == {"n1"}
Amounts == {0, 1}

EmptyString == <<>>
None == <<>>
Some(id) == <<id>>

VARIABLES
  ledger,              \* State.ledger: Vec<Block>, the finalized blocks
  next_block_to_mint,  \* State.next_block_to_mint: the pending Block
  ledger_lock,         \* holder of the ledger mutex: "free", "mint", "req"
  next_block_lock,     \* holder of the next_block_to_mint mutex
  mintPc,              \* position of the minting thread in mint_blocks
  reqPc,               \* position of the request loop / process_request
  request,             \* the request being processed
  response             \* the response of process_request, until it is sent

vars == <<ledger, next_block_to_mint, ledger_lock, next_block_lock,
          mintPc, reqPc, request, response>>

\* ------------------------------------------------------------ data types
Transaction(node_id, from_account_id, to_account_id, amount, datetime) ==
  [node_id |-> node_id, from_account_id |-> from_account_id,
   to_account_id |-> to_account_id, amount |-> amount, datetime |-> datetime]

Block(transactions, previous_hash, hash) ==
  [transactions |-> transactions, previous_hash |-> previous_hash, hash |-> hash]

NoRequest ==
  [from_node |-> "", operation |-> "None", account_id |-> "",
   from_account_id |-> "", to_account_id |-> "", amount |-> 0]

new_create_account_request(node_id, account_id, starting_balance) ==
  [from_node |-> node_id, operation |-> "CreateAccount", account_id |-> account_id,
   from_account_id |-> "", to_account_id |-> "", amount |-> starting_balance]

new_transfer_funds_request(node_id, from_account_id, to_account_id, amount) ==
  [from_node |-> node_id, operation |-> "TransferFunds", account_id |-> "",
   from_account_id |-> from_account_id, to_account_id |-> to_account_id,
   amount |-> amount]

new_get_funds_request(node_id, account_id) ==
  [from_node |-> node_id, operation |-> "GetFunds", account_id |-> account_id,
   from_account_id |-> "", to_account_id |-> "", amount |-> 0]

Requests ==
  {new_create_account_request(n, a, b) : n \in Nodes, a \in Accounts, b \in Amounts}
  \cup {new_transfer_funds_request(n, t[1], t[2], b) :
          n \in Nodes, t \in Accounts \X Accounts, b \in Amounts}
  \cup {new_get_funds_request(n, a) : n \in Nodes, a \in Accounts}

\* The response strings of process_request, by kind; balance is the number
\* formatted into the GetFunds response.
NoResponse == [kind |-> "none", balance |-> 0]
Response(kind) == [kind |-> kind, balance |-> 0]
BalanceResponse(balance) == [kind |-> "balance", balance |-> balance]

\* ------------------------------------------------------- pure functions
\* All transactions of a list of blocks, in ledger order.
RECURSIVE AllTransactions(_)
AllTransactions(blocks) ==
  IF blocks = <<>> THEN <<>>
  ELSE Head(blocks).transactions \o AllTransactions(Tail(blocks))

\* The number of transactions created so far; SystemTime::now() of
\* Transaction::new is modelled as this strictly increasing clock.
Now == Len(AllTransactions(ledger)) + Len(next_block_to_mint.transactions)

\* bincode::serialize(&self) of a Block, then SHA-256 rendered as hex.
Serialize(block) == <<block.transactions, block.previous_hash, block.hash>>
Sha256Hex(bytes) == <<"sha256", bytes>>

\* Variant of calc_and_set_hash: the emptiness test is inverted.
calc_and_set_hash_inverted(block) ==
  IF block.hash # EmptyString
  THEN [block EXCEPT !.hash = Sha256Hex(Serialize(block))]
  ELSE block

\* Block::calc_and_set_hash
calc_and_set_hash(block) ==
  IF block.hash = EmptyString
  THEN [block EXCEPT !.hash = Sha256Hex(Serialize(block))]
  ELSE block

\* Variant of the predicate: the sender is not looked at.
References_receiver_only(transaction, account_id) ==
  transaction.to_account_id = account_id

\* Variant of the predicate: only account creations count.
References_creation_only(transaction, account_id) ==
  /\ transaction.from_account_id = None
  /\ transaction.to_account_id = account_id

\* The predicate of State::account_exists on one transaction.
References(transaction, account_id) ==
  \/ transaction.to_account_id = account_id
  \/ /\ transaction.from_account_id # None
     /\ transaction.from_account_id[1] = account_id

\* Variant of account_exists: only the last block of the ledger is scanned.
account_exists_last_block(account_id) ==
  /\ ledger # <<>>
  /\ \E j \in 1..Len(ledger[Len(ledger)].transactions) :
       References(ledger[Len(ledger)].transactions[j], account_id)

\* State::account_exists, on the locked ledger.
account_exists(account_id) ==
  \E i \in 1..Len(ledger) :
    \E j \in 1..Len(ledger[i].transactions) :
      References(ledger[i].transactions[j], account_id)

\* Variant of the loop body: the debit of the sender is left out.
BalanceStep_credit_only(balance, transaction, account_id) ==
  IF transaction.to_account_id = account_id
  THEN balance + transaction.amount
  ELSE balance

\* The loop body of State::get_balance for one transaction.
BalanceStep(balance, transaction, account_id) ==
  LET afterDebit ==
        IF /\ transaction.from_account_id # None
           /\ transaction.from_account_id[1] = account_id
        THEN balance - transaction.amount
        ELSE balance
  IN IF transaction.to_account_id = account_id
     THEN afterDebit + transaction.amount
     ELSE afterDebit

RECURSIVE BalanceLoop(_, _, _)
BalanceLoop(balance, transactions, account_id) ==
  IF transactions = <<>> THEN balance
  ELSE BalanceLoop(BalanceStep(balance, Head(transactions), account_id),
                   Tail(transactions), account_id)

\* Variant of get_balance: the pending block is replayed too.
get_balance_with_pending(account_id) ==
  BalanceLoop(0, AllTransactions(ledger) \o next_block_to_mint.transactions,
              account_id)

\* State::get_balance, on the locked ledger.
get_balance(account_id) ==
  BalanceLoop(0, AllTransactions(ledger), account_id)

\* ------------------------------------------------------------------ Init
\* init_server: empty ledger, empty pending block with previous_hash "".
Init ==
  /\ ledger = <<>>
  /\ next_block_to_mint = Block(<<>>, EmptyString, EmptyString)
  /\ ledger_lock = "free"
  /\ next_block_lock = "free"
  /\ mintPc = "sleep"
  /\ reqPc = "recv"
  /\ request = NoRequest
  /\ response = NoResponse

\* ------------------------------------------------------- minting thread
\* line 104-106: the sleep ends and the thread takes the pending-block lock.
MintLock ==
  /\ mintPc = "sleep"
  /\ next_block_lock = "free"
  /\ next_block_lock' = "mint"
  /\ mintPc' = "check"
  /\ UNCHANGED <<ledger, next_block_to_mint, ledger_lock, reqPc, request, response>>

\* Variant of line 107-110: the `continue` is missing and the empty block
\* falls through to line 113.
MintSkip_fall_through ==
  /\ mintPc = "check"
  /\ next_block_to_mint.transactions = <<>>
  /\ next_block_to_mint' = calc_and_set_hash(next_block_to_mint)
  /\ mintPc' = "lock_ledger"
  /\ UNCHANGED <<ledger, ledger_lock, next_block_lock, reqPc, request, response>>

\* line 107-110: nothing to mint; `continue` drops the guard.
MintSkip ==
  /\ mintPc = "check"
  /\ next_block_to_mint.transactions = <<>>
  /\ next_block_lock' = "free"
  /\ mintPc' = "sleep"
  /\ UNCHANGED <<ledger, next_block_to_mint, ledger_lock, reqPc, request, response>>

\* line 107, 113: the block has transactions; its hash is computed and set.
MintCalcHash ==
  /\ mintPc = "check"
  /\ next_block_to_mint.transactions # <<>>
  /\ next_block_to_mint' = calc_and_set_hash(next_block_to_mint)
  /\ mintPc' = "lock_ledger"
  /\ UNCHANGED <<ledger, ledger_lock, next_block_lock, reqPc, request, response>>

\* line 116: state.ledger.lock()
MintLockLedger ==
  /\ mintPc = "lock_ledger"
  /\ ledger_lock = "free"
  /\ ledger_lock' = "mint"
  /\ mintPc' = "push"
  /\ UNCHANGED <<ledger, next_block_to_mint, next_block_lock, reqPc, request, response>>

\* Variant of line 116: the block is inserted at the front of the ledger.
MintPush_front ==
  /\ mintPc = "push"
  /\ ledger' = <<next_block_to_mint>> \o ledger
  /\ ledger_lock' = "free"
  /\ mintPc' = "clear"
  /\ UNCHANGED <<next_block_to_mint, next_block_lock, reqPc, request, response>>

\* Variant of line 116: the block is not pushed.
MintPush_dropped ==
  /\ mintPc = "push"
  /\ ledger_lock' = "free"
  /\ mintPc' = "clear"
  /\ UNCHANGED <<ledger, next_block_to_mint, next_block_lock, reqPc, request, response>>

\* line 116: .push(next_block_to_mint.clone()); the temporary guard is dropped.
MintPush ==
  /\ mintPc = "push"
  /\ ledger' = Append(ledger, next_block_to_mint)
  /\ ledger_lock' = "free"
  /\ mintPc' = "clear"
  /\ UNCHANGED <<next_block_to_mint, next_block_lock, reqPc, request, response>>

\* Variant of line 121: the transactions are not cleared.
MintClear_keep ==
  /\ mintPc = "clear"
  /\ mintPc' = "set_previous_hash"
  /\ UNCHANGED <<ledger, next_block_to_mint, ledger_lock, next_block_lock,
                 reqPc, request, response>>

\* line 121
MintClear ==
  /\ mintPc = "clear"
  /\ next_block_to_mint' = [next_block_to_mint EXCEPT !.transactions = <<>>]
  /\ mintPc' = "set_previous_hash"
  /\ UNCHANGED <<ledger, ledger_lock, next_block_lock, reqPc, request, response>>

\* Variant of line 122: the pending block is not chained to the new tail.
MintSetPreviousHash_unchained ==
  /\ mintPc = "set_previous_hash"
  /\ mintPc' = "reset_hash"
  /\ UNCHANGED <<ledger, next_block_to_mint, ledger_lock, next_block_lock,
                 reqPc, request, response>>

\* line 122
MintSetPreviousHash ==
  /\ mintPc = "set_previous_hash"
  /\ next_block_to_mint' =
       [next_block_to_mint EXCEPT !.previous_hash = next_block_to_mint.hash]
  /\ mintPc' = "reset_hash"
  /\ UNCHANGED <<ledger, ledger_lock, next_block_lock, reqPc, request, response>>

\* Variant of line 123: the hash of the minted block is left in place.
MintResetHash_keeps_hash ==
  /\ mintPc = "reset_hash"
  /\ next_block_lock' = "free"
  /\ mintPc' = "sleep"
  /\ UNCHANGED <<ledger, next_block_to_mint, ledger_lock, reqPc, request, response>>

\* Variant of line 122-123: the block is reset to a new block with no
\* previous hash.
MintResetHash_fresh_block ==
  /\ mintPc = "reset_hash"
  /\ next_block_to_mint' = Block(<<>>, EmptyString, EmptyString)
  /\ next_block_lock' = "free"
  /\ mintPc' = "sleep"
  /\ UNCHANGED <<ledger, ledger_lock, reqPc, request, response>>

\* line 123-124: the hash is reset and the guard is dropped at the end of
\* the loop body.
MintResetHash ==
  /\ mintPc = "reset_hash"
  /\ next_block_to_mint' = [next_block_to_mint EXCEPT !.hash = EmptyString]
  /\ next_block_lock' = "free"
  /\ mintPc' = "sleep"
  /\ UNCHANGED <<ledger, ledger_lock, reqPc, request, response>>

mint_blocks ==
  \/ MintLock
  \/ MintSkip
  \/ MintCalcHash
  \/ MintLockLedger
  \/ MintPush
  \/ MintClear
  \/ MintSetPreviousHash
  \/ MintResetHash

\* ---------------------------------------------------------- request loop
\* line 155-164, 188: a request is received and deserialized.
Receive ==
  /\ reqPc = "recv"
  /\ Now < MaxTx
  /\ \E r \in Requests : request' = r
  /\ reqPc' = "dispatch"
  /\ UNCHANGED <<ledger, next_block_to_mint, ledger_lock, next_block_lock,
                 mintPc, response>>

\* line 192 -> 69: account_exists takes the ledger lock.
AccountExistsLock ==
  /\ reqPc = "dispatch"
  /\ request.operation = "CreateAccount"
  /\ ledger_lock = "free"
  /\ ledger_lock' = "req"
  /\ reqPc' = "exists"
  /\ UNCHANGED <<ledger, next_block_to_mint, next_block_lock, mintPc,
                 request, response>>

\* Variant of account_exists: the ledger guard outlives the call when the
\* account is new.
CreateAccountCheck_keeps_guard ==
  /\ reqPc = "exists"
  /\ IF account_exists(request.account_id)
     THEN /\ response' = Response("exists")
          /\ reqPc' = "send"
          /\ ledger_lock' = "free"
     ELSE /\ response' = response
          /\ reqPc' = "push_lock"
          /\ ledger_lock' = ledger_lock
  /\ UNCHANGED <<ledger, next_block_to_mint, next_block_lock, mintPc, request>>

\* line 70-73, 192-194: the scan of account_exists and the early return.
CreateAccountCheck ==
  /\ reqPc = "exists"
  /\ ledger_lock' = "free"
  /\ IF account_exists(request.account_id)
     THEN /\ response' = Response("exists")
          /\ reqPc' = "send"
     ELSE /\ response' = response
          /\ reqPc' = "push_lock"
  /\ UNCHANGED <<ledger, next_block_to_mint, next_block_lock, mintPc, request>>

\* line 205-207: a transfer to the same account is refused.
TransferSameAccount ==
  /\ reqPc = "dispatch"
  /\ request.operation = "TransferFunds"
  /\ request.from_account_id = request.to_account_id
  /\ response' = Response("same_account")
  /\ reqPc' = "send"
  /\ UNCHANGED <<ledger, next_block_to_mint, ledger_lock, next_block_lock,
                 mintPc, request>>

\* line 210 / 222 -> 77: get_balance takes the ledger lock.
GetBalanceLock ==
  /\ reqPc = "dispatch"
  /\ \/ /\ request.operation = "TransferFunds"
        /\ request.from_account_id # request.to_account_id
     \/ request.operation = "GetFunds"
  /\ ledger_lock = "free"
  /\ ledger_lock' = "req"
  /\ reqPc' = "balance"
  /\ UNCHANGED <<ledger, next_block_to_mint, next_block_lock, mintPc,
                 request, response>>

\* Variant of line 211: the comparison is reversed.
InsufficientFunds_reversed(balance, amount) == balance > amount

\* line 211: the sufficiency test.
InsufficientFunds(balance, amount) == balance < amount

\* Variant of get_balance: the ledger guard outlives the call when the
\* funds suffice.
TransferCheckFunds_keeps_guard ==
  /\ reqPc = "balance"
  /\ request.operation = "TransferFunds"
  /\ IF InsufficientFunds(get_balance(request.from_account_id), request.amount)
     THEN /\ response' = Response("insufficient")
          /\ reqPc' = "send"
          /\ ledger_lock' = "free"
     ELSE /\ response' = response
          /\ reqPc' = "push_lock"
          /\ ledger_lock' = ledger_lock
  /\ UNCHANGED <<ledger, next_block_to_mint, next_block_lock, mintPc, request>>

\* line 78-96, 210-213: the balance of the sender and the early return.
TransferCheckFunds ==
  /\ reqPc = "balance"
  /\ request.operation = "TransferFunds"
  /\ ledger_lock' = "free"
  /\ IF InsufficientFunds(get_balance(request.from_account_id), request.amount)
     THEN /\ response' = Response("insufficient")
          /\ reqPc' = "send"
     ELSE /\ response' = response
          /\ reqPc' = "push_lock"
  /\ UNCHANGED <<ledger, next_block_to_mint, next_block_lock, mintPc, request>>

\* line 78-96, 222-223: GetFunds returns the balance.
GetFundsReturn ==
  /\ reqPc = "balance"
  /\ request.operation = "GetFunds"
  /\ ledger_lock' = "free"
  /\ response' = BalanceResponse(get_balance(request.account_id))
  /\ reqPc' = "send"
  /\ UNCHANGED <<ledger, next_block_to_mint, next_block_lock, mintPc, request>>

\* Variant of line 198 / 217: the push does not wait for the mutex.
PushLock_no_wait ==
  /\ reqPc = "push_lock"
  /\ next_block_lock' = "req"
  /\ reqPc' = "push"
  /\ UNCHANGED <<ledger, next_block_to_mint, ledger_lock, mintPc,
                 request, response>>

\* line 198 / 217: state.next_block_to_mint.lock()
PushLock ==
  /\ reqPc = "push_lock"
  /\ next_block_lock = "free"
  /\ next_block_lock' = "req"
  /\ reqPc' = "push"
  /\ UNCHANGED <<ledger, next_block_to_mint, ledger_lock, mintPc,
                 request, response>>

\* line 196 / 215: the transaction of the request.
NewTransaction(req, datetime) ==
  IF req.operation = "CreateAccount"
  THEN Transaction(req.from_node, None, req.account_id, req.amount, datetime)
  ELSE Transaction(req.from_node, Some(req.from_account_id),
                   req.to_account_id, req.amount, datetime)

\* line 196-200 / 215-218: the transaction is pushed to the pending block,
\* the temporary guard is dropped and the success response is returned.
Push ==
  /\ reqPc = "push"
  /\ next_block_to_mint' =
       [next_block_to_mint EXCEPT
          !.transactions = Append(@, NewTransaction(request, Now))]
  /\ next_block_lock' = "free"
  /\ response' = IF request.operation = "CreateAccount"
                 THEN Response("created") ELSE Response("transferred")
  /\ reqPc' = "send"
  /\ UNCHANGED <<ledger, ledger_lock, mintPc, request>>

\* line 171-175: the response is sent; the loop waits for the next request.
Send ==
  /\ reqPc = "send"
  /\ reqPc' = "recv"
  /\ request' = NoRequest
  /\ response' = NoResponse
  /\ UNCHANGED <<ledger, next_block_to_mint, ledger_lock, next_block_lock, mintPc>>

process_request ==
  \/ AccountExistsLock
  \/ CreateAccountCheck
  \/ TransferSameAccount
  \/ GetBalanceLock
  \/ TransferCheckFunds
  \/ GetFundsReturn
  \/ PushLock
  \/ Push

Next ==
  \/ mint_blocks
  \/ Receive
  \/ process_request
  \/ Send

Spec == Init /\ [][Next]_vars

\* ------------------------------------------------------------ scheduling
\* The steps of the request loop once a request has arrived.
request_loop ==
  \/ process_request
  \/ Send

\* Both threads are scheduled.  A thread that can run does run, the sleep
\* of line 104 ends, and a thread blocked on a mutex gets it when it is free
\* again and again: the thread that released it sleeps (line 104) or sends
\* and waits for the next request (line 155-171) before it asks again.  No
\* request has to arrive.
Fairness ==
  /\ SF_vars(mint_blocks)
  /\ SF_vars(request_loop)

FairSpec == Spec /\ Fairness

\* ================================================================ claims
\* Account ids the properties quantify over: the ids requests use and one
\* id that no request ever names.
Ids == Accounts \cup {"carol"}

Finalized == AllTransactions(ledger)
Pending == next_block_to_mint.transactions

\* Sum of the amounts of the transactions of txs at the positions in idx.
RECURSIVE SumAmounts(_, _)
SumAmounts(txs, idx) ==
  IF idx = {} THEN 0
  ELSE LET k == CHOOSE k \in idx : TRUE
       IN txs[k].amount + SumAmounts(txs, idx \ {k})

CreditPositions(txs, id) == {k \in 1..Len(txs) : txs[k].to_account_id = id}
DebitPositions(txs, id) == {k \in 1..Len(txs) : txs[k].from_account_id = Some(id)}
NamedIn(txs, id) == CreditPositions(txs, id) \cup DebitPositions(txs, id) # {}

\* Credits minus debits of account id in the transactions txs.
NetAmount(txs, id) ==
  SumAmounts(txs, CreditPositions(txs, id)) - SumAmounts(txs, DebitPositions(txs, id))

IsPrefix(s, t) ==
  /\ Len(s) <= Len(t)
  /\ \A i \in 1..Len(s) : t[i] = s[i]

\* Steps of the two threads, recognised by the program counters.
MintStep == mintPc' # mintPc
ReqStep == reqPc' # reqPc
MintPushStep == mintPc = "push" /\ mintPc' = "clear"

\* C1: chain integrity.  In every reachable state the first finalized block
\* has previous_hash "" and every later finalized block's previous_hash is
\* the hash of the block before it.
C1_ChainIntegrity ==
  \A i \in 1..Len(ledger) :
    IF i = 1
    THEN ledger[i].previous_hash = EmptyString
    ELSE ledger[i].previous_hash = ledger[i - 1].hash

C1_Witness ==
  /\ Len(ledger) >= 2
  /\ ledger[2].previous_hash = ledger[1].hash
  /\ ledger[2].previous_hash # EmptyString

\* C2: for every account id, get_balance is the sum of the finalized
\* amounts received minus the sum of the finalized amounts sent, 0 for an
\* id that no finalized transaction names; pending transactions do not
\* count.
C2_BalanceIsCreditsMinusDebits ==
  \A id \in Ids :
    /\ get_balance(id) = NetAmount(Finalized, id)
    /\ ~NamedIn(Finalized, id) => get_balance(id) = 0

C2_Witness ==
  \E id \in Ids :
    /\ CreditPositions(Finalized, id) # {}
    /\ DebitPositions(Finalized, id) # {}
    /\ get_balance(id) # 0
    /\ NetAmount(Pending, id) # 0

C4_RejectionChangesNothing ==
  [][ /\ (reqPc = "exists" /\ ReqStep /\ account_exists(request.account_id)) =>
           /\ response'.kind = "exists"
           /\ reqPc' = "send"
           /\ UNCHANGED <<ledger, next_block_to_mint>>
      /\ (reqPc = "dispatch" /\ ReqStep /\ request.operation = "TransferFunds"
            /\ request.from_account_id = request.to_account_id) =>
           /\ response'.kind = "same_account"
           /\ reqPc' = "send"
           /\ UNCHANGED <<ledger, next_block_to_mint>>
      /\ (reqPc = "balance" /\ ReqStep /\ request.operation = "TransferFunds"
            /\ get_balance(request.from_account_id) < request.amount) =>
           /\ response'.kind = "insufficient"
           /\ reqPc' = "send"
           /\ UNCHANGED <<ledger, next_block_to_mint>>
      /\ (ReqStep /\ reqPc # "push") => UNCHANGED <<ledger, next_block_to_mint>>
      /\ (ReqStep /\ reqPc = "push") =>
           response'.kind \in {"created", "transferred"}
    ]_vars

C4_Witness ==
  /\ reqPc = "send"
  /\ response.kind = "insufficient"
  /\ get_balance(request.from_account_id) < request.amount
  /\ ledger # <<>>
  /\ Pending # <<>>

\* C5: a mint of a non-empty pending block appends exactly one block: the
\* pending transactions in order, the pending previous_hash, and as hash the
\* digest of those contents; when the mint is over the pending block is
\* empty, its hash is "" and its previous_hash is the hash of the block
\* just appended.  Nothing else touches the ledger or the pending block
\* while the mint holds the lock.
C5_MintAppendsPendingBlock ==
  [][ /\ (mintPc = "check" /\ MintStep /\ Pending # <<>>) =>
           /\ mintPc' = "lock_ledger"
           /\ next_block_to_mint' =
                Block(Pending, next_block_to_mint.previous_hash,
                      Sha256Hex(Serialize(Block(Pending,
                        next_block_to_mint.previous_hash, EmptyString))))
           /\ ledger' = ledger
      /\ MintPushStep =>
           /\ Pending # <<>>
           /\ ledger' = Append(ledger, next_block_to_mint)
           /\ ledger'[Len(ledger')].hash =
                Sha256Hex(Serialize(Block(Pending,
                  next_block_to_mint.previous_hash, EmptyString)))
           /\ next_block_to_mint' = next_block_to_mint
      /\ (mintPc # "sleep" /\ ~MintPushStep) => ledger' = ledger
      /\ (mintPc # "sleep" /\ ~MintStep) =>
           next_block_to_mint' = next_block_to_mint
      /\ (mintPc = "reset_hash" /\ MintStep) =>
           /\ mintPc' = "sleep"
           /\ next_block_to_mint' =
                Block(<<>>, ledger[Len(ledger)].hash, EmptyString)
    ]_vars

C5_Witness ==
  /\ mintPc = "sleep"
  /\ Len(ledger) >= 1
  /\ Len(ledger[Len(ledger)].transactions) >= 2
  /\ next_block_to_mint = Block(<<>>, ledger[Len(ledger)].hash, EmptyString)

\* C6: a mint that finds the pending block empty is a no-op, each time it
\* happens: the ledger and the pending block's transactions, previous_hash
\* and hash stay as they are and the thread goes back to sleep.
C6_EmptyMintIsNoOp ==
  [][ /\ (mintPc = "check" /\ MintStep /\ Pending = <<>>) =>
           /\ mintPc' = "sleep"
           /\ UNCHANGED <<ledger, next_block_to_mint>>
      /\ (mintPc = "sleep" /\ MintStep) =>
           /\ mintPc' = "check"
           /\ UNCHANGED <<ledger, next_block_to_mint>>
    ]_vars

C6_Witness ==
  /\ mintPc = "check"
  /\ Pending = <<>>
  /\ ledger # <<>>
  /\ next_block_to_mint.previous_hash = ledger[Len(ledger)].hash

\* C7: for every account id, account_exists is true exactly when some
\* finalized transaction has the id as receiver or as (present) sender;
\* an id named only in the pending block does not exist.
C7_ExistsIffFinalizedReference ==
  \A id \in Ids :
    /\ account_exists(id) <=>
         \E k \in 1..Len(Finalized) :
           \/ Finalized[k].to_account_id = id
           \/ Finalized[k].from_account_id = Some(id)
    /\ (NamedIn(Pending, id) /\ ~NamedIn(Finalized, id)) => ~account_exists(id)

C7_Witness ==
  \E id1, id2 \in Ids :
    /\ account_exists(id1)
    /\ NamedIn(Finalized, id1)
    /\ ~account_exists(id2)
    /\ CreditPositions(Pending, id2) # {}
    /\ \E k \in DebitPositions(Pending, id1) : Pending[k].to_account_id = id2

\* C8 as claimed: a TransferFunds whose sender is named by no finalized
\* transaction is rejected and appends nothing, whatever the amount and the
\* recipient.
C8_Original ==
  [][ /\ (reqPc = "balance" /\ ReqStep /\ request.operation = "TransferFunds"
            /\ ~NamedIn(Finalized, request.from_account_id)) =>
           /\ get_balance(request.from_account_id) = 0
           /\ response'.kind = "insufficient"
           /\ reqPc' = "send"
           /\ UNCHANGED <<ledger, next_block_to_mint>>
      /\ (reqPc = "dispatch" /\ ReqStep /\ request.operation = "TransferFunds"
            /\ ~NamedIn(Finalized, request.from_account_id)) =>
           /\ reqPc' = "send" => response'.kind = "same_account"
           /\ UNCHANGED <<ledger, next_block_to_mint>>
    ]_vars

\* C8: a TransferFunds of a positive amount whose sender is named by no
\* finalized transaction (its balance is 0) is rejected and appends
\* nothing, whatever the recipient.
C8_UnknownSenderPositiveAmountRejected ==
  [][ /\ (reqPc = "balance" /\ ReqStep /\ request.operation = "TransferFunds"
            /\ ~NamedIn(Finalized, request.from_account_id)
            /\ request.amount > 0) =>
           /\ get_balance(request.from_account_id) = 0
           /\ response'.kind = "insufficient"
           /\ reqPc' = "send"
           /\ UNCHANGED <<ledger, next_block_to_mint>>
      /\ (reqPc = "dispatch" /\ ReqStep /\ request.operation = "TransferFunds"
            /\ ~NamedIn(Finalized, request.from_account_id)
            /\ request.amount > 0) =>
           /\ reqPc' = "send" => response'.kind = "same_account"
           /\ UNCHANGED <<ledger, next_block_to_mint>>
    ]_vars

C8_Witness ==
  /\ reqPc = "send"
  /\ request.operation = "TransferFunds"
  /\ response.kind = "insufficient"
  /\ request.amount > 0
  /\ ~NamedIn(Finalized, request.from_account_id)
  /\ NetAmount(Pending, request.from_account_id) > 0

\* The parts of C9 that do not depend on the balance: once an account
\* exists it exists for ever, and a CreateAccount that finds its account
\* existing is rejected and appends nothing.
C9_ExistingStaysAndBlocksCreate ==
  /\ \A id \in Ids : account_exists(id) => account_exists(id)'
  /\ (reqPc = "exists" /\ ReqStep /\ account_exists(request.account_id)) =>
       /\ response'.kind = "exists"
       /\ UNCHANGED <<ledger, next_block_to_mint>>

\* C9 as claimed: when the mint finalizes a transfer whose recipient is
\* named by no finalized transaction, the recipient exists after the mint,
\* its balance is the amount of the transfer, and later CreateAccount
\* requests for it are rejected.
C9_Original ==
  [][ /\ MintPushStep =>
           \A k \in 1..Len(Pending) :
             (Pending[k].from_account_id # None
                /\ ~NamedIn(Finalized, Pending[k].to_account_id)) =>
               /\ account_exists(Pending[k].to_account_id)'
               /\ get_balance(Pending[k].to_account_id)' = Pending[k].amount
      /\ C9_ExistingStaysAndBlocksCreate
    ]_vars

\* C9: when the mint finalizes a transfer whose recipient is named by no
\* finalized transaction, the recipient exists after the mint and for ever,
\* its balance is what the transactions of the minted block credit it minus
\* what they debit it (the amount of the transfer when no other transaction
\* of the block names the recipient), and later CreateAccount requests for
\* it are rejected.
C9_TransferCreatesRecipient ==
  [][ /\ MintPushStep =>
           \A k \in 1..Len(Pending) :
             (Pending[k].from_account_id # None
                /\ ~NamedIn(Finalized, Pending[k].to_account_id)) =>
               /\ account_exists(Pending[k].to_account_id)'
               /\ get_balance(Pending[k].to_account_id)' =
                    NetAmount(Pending, Pending[k].to_account_id)
               /\ (CreditPositions(Pending, Pending[k].to_account_id) = {k}
                     /\ DebitPositions(Pending, Pending[k].to_account_id) = {}) =>
                    get_balance(Pending[k].to_account_id)' = Pending[k].amount
      /\ C9_ExistingStaysAndBlocksCreate
    ]_vars

C9_Witness ==
  /\ Len(ledger) = 2
  /\ ~NamedIn(ledger[1].transactions, "bob")
  /\ \E k \in 1..Len(ledger[2].transactions) :
       /\ ledger[2].transactions[k].from_account_id = Some("alice")
       /\ ledger[2].transactions[k].to_account_id = "bob"
       /\ ledger[2].transactions[k].amount = 1
  /\ account_exists("bob")
  /\ get_balance("bob") = 1
  /\ request.operation = "CreateAccount"
  /\ request.account_id = "bob"
  /\ response.kind = "exists"

\* C10: the ledger is append-only.  Across every step the ledger before is
\* a prefix of the ledger after, block for block with the same
\* transactions, previous_hash and hash; a hash that is set is never
\* replaced by another digest, and a block enters the ledger with the hash
\* it keeps.
C10_LedgerAppendOnly ==
  [][ /\ IsPrefix(ledger, ledger')
      /\ Len(ledger') <= Len(ledger) + 1
      /\ next_block_to_mint.hash # EmptyString =>
           next_block_to_mint'.hash \in {next_block_to_mint.hash, EmptyString}
      /\ ledger' # ledger => MintPushStep
    ]_vars

C10_Witness ==
  /\ Len(ledger) >= 2
  /\ ledger[1] # ledger[2]
  /\ mintPc = "push"
  /\ next_block_to_mint.hash # EmptyString

\* C11: a double spend within one minting interval.  A transfer is accepted
\* exactly when the finalized balance of the sender covers the amount,
\* whatever the pending block already debits; so two transfers from A, each
\* within the finalized balance b > 0 and together above it, are both
\* accepted, and the mint of a block that debits A by more than its balance
\* and the block's credits leaves get_balance(A) negative.
C11_DoubleSpend ==
  [][ /\ (reqPc = "balance" /\ ReqStep /\ request.operation = "TransferFunds") =>
           IF NetAmount(Finalized, request.from_account_id) >= request.amount
           THEN reqPc' = "push_lock"
           ELSE reqPc' = "send" /\ response'.kind = "insufficient"
      /\ MintPushStep =>
           \A id \in Ids :
             (SumAmounts(Pending, DebitPositions(Pending, id)) >
                get_balance(id) + SumAmounts(Pending, CreditPositions(Pending, id))) =>
               get_balance(id)' < 0
    ]_vars

C11_Witness ==
  /\ Len(ledger) = 2
  /\ NetAmount(ledger[1].transactions, "alice") = 1
  /\ Len(ledger[2].transactions) = 2
  /\ \A k \in 1..2 :
       /\ ledger[2].transactions[k].from_account_id = Some("alice")
       /\ ledger[2].transactions[k].amount = 1
  /\ get_balance("alice") < 0

\* A thread is blocked when the mutex it asks for is held by the other one.
MintBlocked ==
  \/ mintPc = "sleep" /\ next_block_lock = "req"
  \/ mintPc = "lock_ledger" /\ ledger_lock = "req"

RequestBlocked ==
  \/ reqPc = "push_lock" /\ next_block_lock = "mint"
  \/ /\ reqPc = "dispatch"
     /\ request.from_account_id # request.to_account_id \/ request.operation # "TransferFunds"
     /\ ledger_lock = "mint"

C13_Original ==
  /\ ~(ledger_lock = "mint" /\ next_block_lock = "mint")
  /\ ~(ledger_lock = "req" /\ next_block_lock = "req")

\* C13: a request never holds the two locks at the same time.  The minting
\* thread does, and only at line 116: it holds the ledger lock only while
\* it holds the pending-block lock, which it took first.
C13_LockDiscipline ==
  /\ ~(ledger_lock = "req" /\ next_block_lock = "req")
  /\ ledger_lock = "mint" => (next_block_lock = "mint" /\ mintPc = "push")
  /\ ledger_lock = "req" <=> reqPc \in {"exists", "balance"}
  /\ next_block_lock = "req" <=> reqPc = "push"
  /\ next_block_lock = "mint" <=> mintPc # "sleep"

C13_Witness ==
  /\ ledger_lock = "mint"
  /\ next_block_lock = "mint"
  /\ reqPc = "push_lock"

\* C14 as claimed: the hash of the pending block is "" in every reachable
\* state, the states inside a mint included.
C14_Original ==
  next_block_to_mint.hash = EmptyString

\* C14: the hash of the pending block is "" whenever the minting thread
\* does not hold the pending-block lock, and inside a mint until line 113;
\* from line 113 to line 123 it is the digest of the block being minted.
C14_PendingHashEmptyOutsideMint ==
  /\ next_block_lock # "mint" => next_block_to_mint.hash = EmptyString
  /\ mintPc \in {"sleep", "check"} => next_block_to_mint.hash = EmptyString
  /\ mintPc \in {"lock_ledger", "push", "clear", "set_previous_hash", "reset_hash"} =>
       next_block_to_mint.hash # EmptyString

C14_Witness ==
  /\ next_block_lock = "req"
  /\ ledger # <<>>
  /\ next_block_to_mint.hash = EmptyString
  /\ next_block_to_mint.previous_hash # EmptyString
  /\ Pending # <<>>

\* C15: no block of the finalized ledger has hash "": a block is pushed
\* only with its hash computed and set.
C15_FinalizedBlocksHaveHash ==
  \A i \in 1..Len(ledger) : ledger[i].hash # EmptyString

C15_Witness ==
  /\ Len(ledger) = 3
  /\ \A i \in 1..3 : ledger[i].hash # EmptyString
  /\ ledger[1].hash # ledger[2].hash
  /\ ledger[2].hash # ledger[3].hash

\* The transactions of txs as a set.
Range(txs) == {txs[k] : k \in 1..Len(txs)}

\* C16: every accepted transaction is eventually finalized when the minting
\* thread is scheduled fairly.  A transaction of the pending block stays
\* there or is in the ledger after every step, a finalized transaction stays
\* finalized, and the pending block is empty again and again.
C16_AcceptedEventuallyFinalized ==
  /\ [][ /\ Range(Pending) \subseteq Range(Pending') \cup Range(Finalized')
         /\ Range(Finalized) \subseteq Range(Finalized')
       ]_vars
  /\ []<>(Pending = <<>>)

C16_Witness ==
  /\ Len(ledger) = 2
  /\ Len(ledger[1].transactions) = 2
  /\ Len(ledger[2].transactions) = 1
  /\ Pending = <<>>
  /\ mintPc = "sleep"

\* The accepted transactions in acceptance order: the finalized ones and
\* the pending ones, the pending block counted once while the mint has
\* pushed its clone and not yet cleared it (line 116-121).
Accepted ==
  IF mintPc = "clear" THEN Finalized ELSE Finalized \o Pending

\* C17: minting loses and duplicates nothing.  The push of a request adds
\* its one transaction at the end of the accepted transactions, and happens
\* only while the minting thread is outside its critical section; no other
\* step changes them.  Whenever the minting thread is outside its critical
\* section every accepted transaction is at exactly one place of the
\* finalized blocks followed by the pending block.
C17_NoLossNoDuplication ==
  /\ [][ IF ReqStep /\ reqPc = "push"
         THEN /\ mintPc = "sleep"
              /\ Accepted' = Append(Accepted, NewTransaction(request, Now))
         ELSE Accepted' = Accepted
       ]_vars
  /\ [](next_block_lock # "mint" =>
          /\ Accepted = Finalized \o Pending
          /\ \A i, j \in 1..Len(Accepted) : i # j => Accepted[i] # Accepted[j])

C17_Witness ==
  /\ mintPc = "sleep"
  /\ reqPc = "send"
  /\ response.kind \in {"created", "transferred"}
  /\ Len(ledger) = 2
  /\ Len(Pending) = 1
  /\ Len(Accepted) = 3

\* Sum of get_balance over the account ids of ids.
RECURSIVE SumBalances(_)
SumBalances(ids) ==
  IF ids = {} THEN 0
  ELSE LET id == CHOOSE id \in ids : TRUE
       IN get_balance(id) + SumBalances(ids \ {id})

CreationPositions(txs) == {k \in 1..Len(txs) : txs[k].from_account_id = None}
TransferPositions(txs) == {k \in 1..Len(txs) : txs[k].from_account_id # None}

\* C18: conservation of funds.  The sum of get_balance over all account
\* ids is the sum of the amounts of the finalized credit-only transactions
\* (from_account absent); finalized transfers add nothing to it.
C18_Conservation ==
  SumBalances(Ids) = SumAmounts(Finalized, CreationPositions(Finalized))

C18_Witness ==
  /\ SumAmounts(Finalized, TransferPositions(Finalized)) >= 1
  /\ SumAmounts(Finalized, CreationPositions(Finalized)) = 1
  /\ SumBalances(Ids) = 1
  /\ \E id \in Ids : get_balance(id) < 0

\* Positions of the creations of account id in txs.
CreationsOf(txs, id) ==
  {k \in CreationPositions(txs) : txs[k].to_account_id = id}

\* C19 as claimed: the finalized ledger holds at most one creation
\* transaction for every account id.
C19_Original ==
  \A id \in Ids : Cardinality(CreationsOf(Finalized, id)) <= 1

\* C19: a CreateAccount(X, _) whose existence check runs once a creation of
\* X is finalized is rejected and appends nothing, so with a mint between
\* two CreateAccount(X, _) requests the second is rejected.  Creations
\* accepted before that mint are all finalized: past the first block that
\* names X the ledger holds at most one creation of X, the first
\* transaction of the next block (checked before the mint, pushed after).
C19_CreateRejectedOnceFinalized ==
  /\ [][ (reqPc = "exists" /\ ReqStep
            /\ CreationsOf(Finalized, request.account_id) # {}) =>
           /\ response'.kind = "exists"
           /\ reqPc' = "send"
           /\ UNCHANGED <<ledger, next_block_to_mint>>
       ]_vars
  /\ [](\A id \in Ids : \A i, j \in 1..Len(ledger) :
          (i < j /\ NamedIn(ledger[i].transactions, id)) =>
            /\ CreationsOf(ledger[j].transactions, id) \subseteq {1}
            /\ CreationsOf(ledger[j].transactions, id) # {} =>
                 /\ j = i + 1
                 /\ \A h \in 1..(i - 1) : ~NamedIn(ledger[h].transactions, id))

C19_Witness ==
  /\ reqPc = "send"
  /\ request.operation = "CreateAccount"
  /\ response.kind = "exists"
  /\ Cardinality(CreationsOf(Finalized, request.account_id)) = 1
  /\ Pending # <<>>

\* The hash of the last finalized block, "" for an empty ledger.
TailHash == IF ledger = <<>> THEN EmptyString ELSE ledger[Len(ledger)].hash

\* C20: whenever the minting thread does not hold the pending-block lock,
\* the previous_hash of the pending block is the hash of the last finalized
\* block, or "" when the ledger is empty; the push of a request leaves
\* previous_hash as it is.
C20_PendingChainedToTail ==
  /\ [](next_block_lock # "mint" => next_block_to_mint.previous_hash = TailHash)
  /\ [][ (ReqStep /\ reqPc = "push") =>
           /\ Len(Pending') = Len(Pending) + 1
           /\ next_block_to_mint'.previous_hash = next_block_to_mint.previous_hash
       ]_vars

C20_Witness ==
  /\ next_block_lock = "free"
  /\ Len(ledger) = 2
  /\ Len(Pending) = 1
  /\ next_block_to_mint.previous_hash = ledger[2].hash
  /\ next_block_to_mint.previous_hash # ledger[1].hash

====
